---- MODULE Spec2Model ----
(***************************************************************************)
(* Form-session backend (src/src/index.ts, src/unnamed/part_000): the      *)
(* session record kept in the KV store under one key, the retry wrapper,   *)
(* getSession / updateSession and the route handlers that call them.       *)
(*                                                                         *)
(* An optional value is a sequence: <<>> when missing, <<v>> when present. *)
(* A request is one record (proc[p]); each action is one store operation   *)
(* (kv.get / kv.put / kv.delete) followed by the synchronous code that     *)
(* runs until the next store operation.                                    *)
(***************************************************************************)
EXTENDS Integers, Sequences, FiniteSets, TLC

VARIABLES store,    \* the value under session:<id>: <<>> or <<record>>
          writer,   \* who wrote the value under the key last
          created,  \* POST /init has minted this id
          kvFault,  \* how the store answers right now: "none", "transient", "permission"
          proc,     \* per client: the request in progress
          now       \* new Date(): the clock the timestamps are read from

vars == <<store, writer, created, kvFault, proc, now>>

\* ---------------------------------------------------------------- bounds
MaxNameLen == 2
MaxAddons == 1
MaxClock == 2
MaxSubmitAddons == 2

\* ------------------------------------------------------------- constants
MAX_RETRIES == 3
INITIAL_RETRY_DELAY_MS == 100
GET_RETRIES == 3
GET_RETRY_DELAY_MS == 200
MinNameLen == 2
MinPhoneLen == 10
MinStep == 1
MaxStep == 4

Procs == {"c1", "c2"}

None == <<>>
Some(v) == <<v>>

Max(a, b) == IF a >= b THEN a ELSE b

\* ------------------------------------------------------------ strings
\* A name is a sequence of tokens: a letter (1 character) or a tag (3 characters).
NameTokens == {"J", "<b>"}
IsTag(t) == t = "<b>"
TokenLen(t) == IF IsTag(t) THEN 3 ELSE 1

RECURSIVE StrLen(_)
StrLen(s) == IF s = <<>> THEN 0 ELSE TokenLen(Head(s)) + StrLen(Tail(s))

SeqsUpTo(S, n) == UNION {[1..k -> S] : k \in 0..n}

\* sanitizeHtml(name, {allowedTags: [], allowedAttributes: {}}): every tag is dropped.
sanitizeHtml(s) == SelectSeq(s, LAMBDA t : ~IsTag(t))

Emails == {"jo@ex.com", "JO@Ex.com", "jo-at-ex"}
EmailOk(e) == e \in {"jo@ex.com", "JO@Ex.com"}
toLowerCase(e) == IF e = "JO@Ex.com" THEN "jo@ex.com" ELSE e

\* A phone is counted: characters the pattern [\d+] keeps, and the others.
stripPhone(ph) == [kept |-> ph.kept, other |-> 0]
PhoneLen(ph) == ph.kept + ph.other
Phones == {[kept |-> 10, other |-> 2], [kept |-> 9, other |-> 1]}

\* An error message is its sequence of words.
ErrAccess == <<"Failed", "to", "access", "session", "data">>
ErrNotExist == <<"Session", "does", "not", "exist", "for", "update.">>
ErrInvalidStep == <<"Invalid", "step", "value">>
ErrPhone == <<"Phone", "number", "too", "short">>
ErrKvTransient == <<"KV", "error:", "timeout">>
ErrKvPermission == <<"KV", "error:", "permission", "denied">>
NoError == <<>>

KvError == IF kvFault = "permission" THEN ErrKvPermission ELSE ErrKvTransient

\* ------------------------------------------------------------ schemas
PlanIds == {"arcade", "advanced", "pro"}
BillingPeriods == {"yearly", "monthly"}
AddonIds == {"customizable_profile", "larger_storage", "online_services"}

PersonalInfoSchema(pi) == StrLen(pi.name) >= MinNameLen /\ EmailOk(pi.email)

\* The value zValidator hands on: the phone transformed.
PersonalInfoParsed(pi) == [pi EXCEPT !.phone = stripPhone(pi.phone)]

PlanSelectionSchema(pl) == pl.plan_id \in PlanIds /\ pl.billing_period \in BillingPeriods

AddonsSchema(a) == \A i \in 1..Len(a) : a[i] \in AddonIds

NavigateSchema(s) == s >= MinStep /\ s <= MaxStep

sanitizePhoneTooShort(info) == PhoneLen(stripPhone(info.phone)) < MinPhoneLen

sanitizePersonalInfo(info) ==
    [name  |-> sanitizeHtml(info.name),
     email |-> toLowerCase(info.email),
     phone |-> stripPhone(info.phone)]

\* The plan catalogue the plan route and submit look ids up in.
PLANS == {"arcade", "advanced", "pro"}

\* The addon catalogue submit looks ids up in.
ADDONS == {"online_services", "larger_storage", "customizable_profile"}

\* Catalogue prices, in thousandths of the currency unit.
planPrice(plan_id, billing_period) ==
    LET monthly_price == CASE plan_id = "arcade"   -> 9000
                           [] plan_id = "advanced" -> 12000
                           [] plan_id = "pro"      -> 15000
    IN  IF billing_period = "monthly" THEN monthly_price ELSE 10 * monthly_price

addonPrice(addon_id, billing_period) ==
    LET monthly_price == CASE addon_id = "online_services"      -> 1000
                           [] addon_id = "larger_storage"       -> 2000
                           [] addon_id = "customizable_profile" -> 2000
    IN  IF billing_period = "monthly" THEN monthly_price ELSE 10 * monthly_price

\* parseFloat(x.toFixed(2)): round to the nearest hundredth.
toFixed2(x) == ((x + 5) \div 10) * 10

\* ------------------------------------------------------------ sessions
\* Mutant: the new session starts at step 0.
NewSession_stepZero ==
    [id |-> Some("s1"), step_typeof |-> "number", current_step |-> 0,
     personal_info |-> None, plan_selection |-> None, addons |-> None,
     created_at |-> now, updated_at |-> now]

NewSession ==
    [id |-> Some("s1"), step_typeof |-> "number", current_step |-> 1,
     personal_info |-> None, plan_selection |-> None, addons |-> None,
     created_at |-> now, updated_at |-> now]

\* Mutant: the upper bound of the step is not checked.
isFormSession_noUpperBound(data) ==
    /\ data.id # None
    /\ data.step_typeof = "number"
    /\ data.current_step >= 1
    /\ (data.personal_info # None => PersonalInfoSchema(data.personal_info[1]))
    /\ (data.plan_selection # None => PlanSelectionSchema(data.plan_selection[1]))
    /\ (data.addons # None => AddonsSchema(data.addons[1]))

isFormSession(data) ==
    /\ data.id # None
    /\ data.step_typeof = "number"
    /\ data.current_step >= 1
    /\ data.current_step <= 4
    /\ (data.personal_info # None => PersonalInfoSchema(data.personal_info[1]))
    /\ (data.plan_selection # None => PlanSelectionSchema(data.plan_selection[1]))
    /\ (data.addons # None => AddonsSchema(data.addons[1]))

\* A partial update: each field supplied or not.
NoUpdates ==
    [personal_info |-> None, plan_selection |-> None, addons |-> None,
     current_step |-> None]

Overlay(old, new) == IF new # None THEN new ELSE old

\* Mutant: the merge keeps the creation time of the fetched record.
mergeSession_keepsCreatedAt(existing, updates) ==
    [id |-> existing.id,
     step_typeof |-> existing.step_typeof,
     current_step |-> IF updates.current_step # None
                       THEN updates.current_step[1] ELSE existing.current_step,
     personal_info |-> Overlay(existing.personal_info, updates.personal_info),
     plan_selection |-> Overlay(existing.plan_selection, updates.plan_selection),
     addons |-> Overlay(existing.addons, updates.addons),
     created_at |-> existing.created_at,
     updated_at |-> now]

\* {...existing, ...updates, id: existing.id, created_at: now, updated_at: now}
mergeSession(existing, updates) ==
    [id |-> existing.id,
     step_typeof |-> existing.step_typeof,
     current_step |-> IF updates.current_step # None
                       THEN updates.current_step[1] ELSE existing.current_step,
     personal_info |-> Overlay(existing.personal_info, updates.personal_info),
     plan_selection |-> Overlay(existing.plan_selection, updates.plan_selection),
     addons |-> Overlay(existing.addons, updates.addons),
     created_at |-> now,
     updated_at |-> now]

\* Mutant: the step is derived from the content alone, starting from 1.
newStep_fromContent(existing, updatedSession) ==
    LET s0 == 1
        s1 == IF /\ updatedSession.personal_info # None
                 /\ PersonalInfoSchema(updatedSession.personal_info[1])
              THEN Max(s0, 2) ELSE s0
        s2 == IF /\ updatedSession.plan_selection # None
                 /\ PlanSelectionSchema(updatedSession.plan_selection[1])
              THEN Max(s1, 3) ELSE s1
        s3 == IF /\ updatedSession.addons # None
                 /\ AddonsSchema(updatedSession.addons[1])
              THEN Max(s2, 4) ELSE s2
    IN  s3

\* Mutant: every update advances the step by one, whatever it supplies.
newStep_alwaysAdvance(existing, updatedSession) ==
    IF existing.current_step < 4 THEN existing.current_step + 1 ELSE 4

newStep(existing, updatedSession) ==
    LET s0 == existing.current_step
        s1 == IF /\ updatedSession.personal_info # None
                 /\ PersonalInfoSchema(updatedSession.personal_info[1])
              THEN Max(s0, 2) ELSE s0
        s2 == IF /\ updatedSession.plan_selection # None
                 /\ PlanSelectionSchema(updatedSession.plan_selection[1])
              THEN Max(s1, 3) ELSE s1
        s3 == IF /\ updatedSession.addons # None
                 /\ AddonsSchema(updatedSession.addons[1])
              THEN Max(s2, 4) ELSE s2
    IN  s3

StepInRange(s) == ~(s < 1 \/ s > 4)

buildUpdatedSession(existing, updates) ==
    LET m == mergeSession(existing, updates)
    IN  [m EXCEPT !.current_step = newStep(existing, m)]

\* ------------------------------------------------------------ requests
Idle ==
    [pc |-> "idle", route |-> "none", phase |-> "none", updates |-> NoUpdates,
     existing |-> None, session |-> None, updatedSession |-> None,
     attempt |-> 0, gattempt |-> 0,
     gets |-> 0, puts |-> 0, sleeps |-> 0, slept |-> 0, quarantined |-> FALSE, total |-> 0,
     response |-> [status |-> 0, error |-> NoError, ok |-> FALSE]]

respond(l, status, error, ok) ==
    [l EXCEPT !.pc = "done",
              !.response = [status |-> status, error |-> error, ok |-> ok]]

\* error.message.includes("permission")
IncludesPermission(msg) == \E i \in 1..Len(msg) : msg[i] = "permission"

\* Mutant: one attempt too many.
withRetryCatch_extraAttempt(error, attempt, maxRetries) ==
    IF IncludesPermission(error) THEN "throw"
    ELSE IF attempt < maxRetries THEN "sleep" ELSE "throw"

\* The catch block of withRetry: rethrow at once, or sleep and go round again,
\* or leave the loop and throw lastError.
withRetryCatch(error, attempt, maxRetries) ==
    IF IncludesPermission(error) THEN "throw"
    ELSE IF attempt < maxRetries - 1 THEN "sleep" ELSE "throw"

\* Mutant: the delay triples from one retry to the next.
backoff_tripling(initialDelayMs, attempt) == initialDelayMs * (3 ^ attempt)

backoff(initialDelayMs, attempt) == initialDelayMs * (2 ^ attempt)

\* The catch block of a route handler: 404 for the not-found message; the plan
\* route gives its other errors no status, so the framework's default (200) is sent.
routeCatch(l, error) ==
    IF error = ErrNotExist THEN respond(l, 404, error, FALSE)
    ELSE IF l.route = "plan" THEN respond(l, 200, error, FALSE)
    ELSE respond(l, 500, error, FALSE)

\* An attempt of updateSession's cycle threw `error`: withRetry(.., MAX_RETRIES,
\* INITIAL_RETRY_DELAY_MS) decides. The attempt's locals go out of scope.
updateAttemptThrew(l, error) ==
    LET l1 == [l EXCEPT !.existing = None, !.updatedSession = None]
    IN  IF withRetryCatch(error, l.attempt, MAX_RETRIES) = "sleep"
        THEN [l1 EXCEPT !.attempt = @ + 1,
                        !.gattempt = 0,
                        !.sleeps = @ + 1,
                        !.slept = @ + backoff(INITIAL_RETRY_DELAY_MS, l.attempt),
                        !.pc = "kvget"]
        ELSE routeCatch(l1, error)

\* getSession gave up and threw `error` to its caller.
getSessionThrew(l, error) ==
    IF l.phase = "update" THEN updateAttemptThrew(l, error)
    ELSE routeCatch(l, error)

\* A store operation inside getSession threw: the catch at lines 149-152 replaces
\* the error by ErrAccess, and withRetry(.., 3, 200) decides.
getSessionCatch(l) ==
    IF withRetryCatch(ErrAccess, l.gattempt, GET_RETRIES) = "sleep"
    THEN [l EXCEPT !.gattempt = @ + 1,
                   !.sleeps = @ + 1,
                   !.slept = @ + backoff(GET_RETRY_DELAY_MS, l.gattempt),
                   !.pc = "kvget"]
    ELSE getSessionThrew(l, ErrAccess)

callGetSession(l, route) ==
    [l EXCEPT !.route = route, !.phase = "load", !.pc = "kvget",
              !.attempt = 0, !.gattempt = 0]

callUpdateSession(l, route, updates) ==
    [l EXCEPT !.route = route, !.phase = "update", !.updates = updates,
              !.pc = "kvget", !.attempt = 0, !.gattempt = 0,
              !.gets = 0, !.puts = 0, !.sleeps = 0, !.slept = 0,
              !.quarantined = FALSE]

\* Mutant: an absent session is created by the update.
updateAfterFetch_upsert(l, val) ==
    LET base == IF val = None THEN NewSession ELSE val[1]
        updatedSession == buildUpdatedSession(base, l.updates)
    IN  [l EXCEPT !.existing = Some(base),
                  !.updatedSession = Some(updatedSession),
                  !.pc = "kvput"]

\* updateSession after its getSession returned `val`: lines 170-206.
updateAfterFetch(l, val) ==
    IF val = None
    THEN updateAttemptThrew(l, ErrNotExist)
    ELSE LET updatedSession == buildUpdatedSession(val[1], l.updates)
         IN  IF ~StepInRange(updatedSession.current_step)
             THEN updateAttemptThrew(l, ErrInvalidStep)
             ELSE [l EXCEPT !.existing = val,
                            !.updatedSession = Some(updatedSession),
                            !.pc = "kvput"]

\* Mutant: the personal_info section is not required.
SubmitErrors_personalOptional(session) ==
    \/ session.plan_selection = None
    \/ ~PlanSelectionSchema(session.plan_selection[1])
    \/ session.addons = None
    \/ ~AddonsSchema(session.addons[1])

SubmitErrors(session) ==
    \/ session.personal_info = None
    \/ ~PersonalInfoSchema(session.personal_info[1])
    \/ session.plan_selection = None
    \/ ~PlanSelectionSchema(session.plan_selection[1])
    \/ session.addons = None
    \/ ~AddonsSchema(session.addons[1])

RECURSIVE addonsTotal_monthlyOnly(_, _)
RECURSIVE addonsTotal(_, _)

\* Mutant: the addons are priced at the monthly price whatever the billing period.
addonsTotal_monthlyOnly(addons, billing_period) ==
    IF addons = <<>> THEN 0
    ELSE (IF Head(addons) \in ADDONS
          THEN addonPrice(Head(addons), "monthly") ELSE 0)
         + addonsTotal_monthlyOnly(Tail(addons), billing_period)

\* selectedAddons.reduce((sum, addon) => sum + addon.price, 0) over
\* session.addons mapped through the catalogue, unknown ids filtered out.
addonsTotal(addons, billing_period) ==
    IF addons = <<>> THEN 0
    ELSE (IF Head(addons) \in ADDONS
          THEN addonPrice(Head(addons), billing_period) ELSE 0)
         + addonsTotal(Tail(addons), billing_period)

\* The total of the submit summary: lines 552-577.
submitTotal(session) ==
    LET plan == session.plan_selection[1]
    IN  toFixed2(planPrice(plan.plan_id, plan.billing_period)
                 + addonsTotal(session.addons[1], plan.billing_period))

\* Mutant: marking completion also resets the addons.
submitAfterLoad_clearsAddons(l, val) ==
    IF val = None THEN respond(l, 404, <<"Session", "not", "found">>, FALSE)
    ELSE IF SubmitErrors(val[1]) THEN respond(l, 400, <<"Incomplete", "data">>, FALSE)
    ELSE IF val[1].current_step # 4
         THEN respond(l, 400, <<"Invalid", "submission">>, FALSE)
    ELSE IF val[1].plan_selection[1].plan_id \notin PLANS
         THEN respond(l, 400, <<"Invalid", "plan">>, FALSE)
    ELSE callUpdateSession([l EXCEPT !.session = val,
                                     !.total = submitTotal(val[1])], "submit",
                           [NoUpdates EXCEPT !.current_step = Some(4),
                                             !.addons = Some(<<>>)])

\* POST /:sessionId/submit after its getSession returned: lines 482-583.
submitAfterLoad(l, val) ==
    IF val = None THEN respond(l, 404, <<"Session", "not", "found">>, FALSE)
    ELSE IF SubmitErrors(val[1]) THEN respond(l, 400, <<"Incomplete", "data">>, FALSE)
    ELSE IF val[1].current_step # 4
         THEN respond(l, 400, <<"Invalid", "submission">>, FALSE)
    ELSE IF val[1].plan_selection[1].plan_id \notin PLANS
         THEN respond(l, 400, <<"Invalid", "plan">>, FALSE)
    ELSE callUpdateSession([l EXCEPT !.session = val,
                                     !.total = submitTotal(val[1])], "submit",
                           [NoUpdates EXCEPT !.current_step = Some(4)])

\* Navigation: reject a target beyond the session's step, else set it explicitly.
navigateAfterLoad(l, val) ==
    IF val = None THEN respond(l, 404, <<"Session", "not", "found">>, FALSE)
    ELSE IF l.updates.current_step[1] > val[1].current_step
         THEN respond([l EXCEPT !.session = val], 400, <<"CannotSkipAhead">>, FALSE)
    ELSE callUpdateSession([l EXCEPT !.session = val], "navigate", l.updates)

\* GET /:sessionId after its getSession returned: lines 642-681.
readAfterLoad(l, val) ==
    IF val = None THEN respond(l, 404, <<"Session", "not", "found">>, FALSE)
    ELSE respond([l EXCEPT !.session = val], 200, NoError, TRUE)

\* DELETE /:sessionId after its getSession returned: lines 725-732.
deleteAfterLoad(l, val) ==
    IF val = None THEN respond(l, 404, <<"Session", "not", "found">>, FALSE)
    ELSE [l EXCEPT !.session = val, !.pc = "rdelete"]

getSessionReturned(l, val) ==
    IF l.phase = "update" THEN updateAfterFetch(l, val)
    ELSE IF l.route = "submit" THEN submitAfterLoad(l, val)
    ELSE IF l.route = "navigate" THEN navigateAfterLoad(l, val)
    ELSE IF l.route = "delete" THEN deleteAfterLoad(l, val)
    ELSE readAfterLoad(l, val)

\* What getSession returns for the stored value `st` when the store answers.
getSessionResult(st) ==
    IF st = None THEN None
    ELSE IF ~isFormSession(st[1]) THEN None
    ELSE st

\* ------------------------------------------------------------ inputs
PersonalInputs ==
    [name : SeqsUpTo(NameTokens, MaxNameLen), email : Emails, phone : Phones]

PlanInputs ==
    {[plan_id |-> "arcade", billing_period |-> "monthly"],
     [plan_id |-> "pro", billing_period |-> "yearly"],
     [plan_id |-> "bogus", billing_period |-> "monthly"],
     [plan_id |-> "arcade", billing_period |-> "weekly"]}

AddonsInputs ==
    SeqsUpTo({"larger_storage"}, MaxAddons) \cup {<<"bogus">>}

StepInputs == 0..5

\* What a garbled write can leave under the key.
Garbled ==
    {[NewSession EXCEPT !.current_step = 99],
     [NewSession EXCEPT !.current_step = 0],
     [NewSession EXCEPT !.id = None],
     [NewSession EXCEPT !.step_typeof = "string"],
     [NewSession EXCEPT !.current_step = 3,
                        !.plan_selection = Some([plan_id |-> "bogus", billing_period |-> "monthly"])],
     [NewSession EXCEPT !.current_step = 4, !.addons = Some(<<"bogus">>)]}

\* ------------------------------------------------------------ state machine
Init ==
    /\ store = None
    /\ writer = "none"
    /\ created = FALSE
    /\ kvFault = "none"
    /\ proc = [p \in Procs |-> Idle]
    /\ now = 0

\* POST /init: one put of a fresh session.
PostInit(p) ==
    /\ proc[p].pc = "idle"
    /\ ~created
    /\ LET l == [proc[p] EXCEPT !.route = "init", !.puts = 1]
       IN  IF kvFault # "none"
           THEN /\ proc' = [proc EXCEPT ![p] = respond(l, 500, KvError, FALSE)]
                /\ UNCHANGED <<store, writer, created>>
           ELSE /\ store' = Some(NewSession)
                /\ writer' = "init"
                /\ created' = TRUE
                /\ proc' = [proc EXCEPT ![p] = respond(l, 200, NoError, TRUE)]
    /\ UNCHANGED <<kvFault, now>>

\* PUT /:sessionId/personal up to its call of updateSession.
PutPersonal(p, raw) ==
    /\ proc[p].pc = "idle"
    /\ LET l == [proc[p] EXCEPT !.route = "personal"]
           parsed == PersonalInfoParsed(raw)
       IN  proc' = [proc EXCEPT ![p] =
             IF ~PersonalInfoSchema(raw)
             THEN respond(l, 400, <<"validation">>, FALSE)
             ELSE IF sanitizePhoneTooShort(parsed)
             THEN respond(l, 500, ErrPhone, FALSE)
             ELSE callUpdateSession(l, "personal",
                    [NoUpdates EXCEPT !.personal_info = Some(sanitizePersonalInfo(parsed))])]
    /\ UNCHANGED <<store, writer, created, kvFault, now>>

\* PUT /:sessionId/plan up to its call of updateSession.
PutPlan(p, raw) ==
    /\ proc[p].pc = "idle"
    /\ LET l == [proc[p] EXCEPT !.route = "plan"]
       IN  proc' = [proc EXCEPT ![p] =
             IF ~PlanSelectionSchema(raw)
             THEN respond(l, 400, <<"validation">>, FALSE)
             ELSE IF raw.plan_id \notin PLANS
             THEN respond(l, 400, <<"Invalid", "plan", "selected">>, FALSE)
             ELSE callUpdateSession(l, "plan",
                    [NoUpdates EXCEPT !.plan_selection = Some(raw)])]
    /\ UNCHANGED <<store, writer, created, kvFault, now>>

\* PUT /:sessionId/addons up to its call of updateSession.
PutAddons(p, raw) ==
    /\ proc[p].pc = "idle"
    /\ LET l == [proc[p] EXCEPT !.route = "addons"]
       IN  proc' = [proc EXCEPT ![p] =
             IF ~AddonsSchema(raw)
             THEN respond(l, 400, <<"validation">>, FALSE)
             ELSE callUpdateSession(l, "addons",
                    [NoUpdates EXCEPT !.addons = Some(raw)])]
    /\ UNCHANGED <<store, writer, created, kvFault, now>>

\* POST /:sessionId/submit, GET /:sessionId, DELETE /:sessionId up to getSession.
PostSubmit(p) ==
    /\ proc[p].pc = "idle"
    /\ proc' = [proc EXCEPT ![p] = callGetSession(@, "submit")]
    /\ UNCHANGED <<store, writer, created, kvFault, now>>

GetRoute(p) ==
    /\ proc[p].pc = "idle"
    /\ proc' = [proc EXCEPT ![p] = callGetSession(@, "read")]
    /\ UNCHANGED <<store, writer, created, kvFault, now>>

DeleteRoute(p) ==
    /\ proc[p].pc = "idle"
    /\ proc' = [proc EXCEPT ![p] = callGetSession(@, "delete")]
    /\ UNCHANGED <<store, writer, created, kvFault, now>>

\* Navigation to a target step, up to its fetch of the session.
Navigate(p, target) ==
    /\ proc[p].pc = "idle"
    /\ LET l == [proc[p] EXCEPT !.route = "navigate",
                                !.updates = [NoUpdates EXCEPT !.current_step = Some(target)]]
       IN  proc' = [proc EXCEPT ![p] =
             IF ~NavigateSchema(target)
             THEN respond(l, 400, <<"validation">>, FALSE)
             ELSE callGetSession(l, "navigate")]
    /\ UNCHANGED <<store, writer, created, kvFault, now>>

\* Mutant: the get does not return while the store is failing.
KvGet_blocksOnFault(p) ==
    /\ proc[p].pc = "kvget"
    /\ kvFault = "none"
    /\ LET l == [proc[p] EXCEPT !.gets = @ + 1]
       IN  proc' = [proc EXCEPT ![p] =
             IF store = None THEN getSessionReturned(l, None)
             ELSE IF ~isFormSession(store[1]) THEN [l EXCEPT !.pc = "kvdel"]
             ELSE getSessionReturned(l, store)]
    /\ UNCHANGED <<store, writer, created, kvFault, now>>

\* getSession's kv.get and what follows it.
KvGet(p) ==
    /\ proc[p].pc = "kvget"
    /\ LET l == [proc[p] EXCEPT !.gets = @ + 1]
       IN  proc' = [proc EXCEPT ![p] =
             IF kvFault # "none" THEN getSessionCatch(l)
             ELSE IF store = None THEN getSessionReturned(l, None)
             ELSE IF ~isFormSession(store[1]) THEN [l EXCEPT !.pc = "kvdel"]
             ELSE getSessionReturned(l, store)]
    /\ UNCHANGED <<store, writer, created, kvFault, now>>

\* getSession's kv.delete of a record that failed isFormSession.
KvQuarantine(p) ==
    /\ proc[p].pc = "kvdel"
    /\ LET l == proc[p]
       IN  IF kvFault # "none"
           THEN /\ proc' = [proc EXCEPT ![p] = getSessionCatch(l)]
                /\ UNCHANGED <<store, writer>>
           ELSE /\ store' = None
                /\ writer' = "none"
                /\ proc' = [proc EXCEPT ![p] =
                             getSessionReturned([l EXCEPT !.quarantined = TRUE], None)]
    /\ UNCHANGED <<created, kvFault, now>>

\* Mutant: the put merges the partial fields into the record the key holds now.
KvPut_mergesCurrent(p) ==
    /\ proc[p].pc = "kvput"
    /\ LET l == [proc[p] EXCEPT !.puts = @ + 1]
       IN  IF kvFault # "none"
           THEN /\ proc' = [proc EXCEPT ![p] = updateAttemptThrew(l, KvError)]
                /\ UNCHANGED <<store, writer>>
           ELSE /\ store' = IF store # None
                            THEN Some(buildUpdatedSession(store[1], l.updates))
                            ELSE l.updatedSession
                /\ writer' = "update"
                /\ proc' = [proc EXCEPT ![p] = respond(l, 200, NoError, TRUE)]
    /\ UNCHANGED <<created, kvFault, now>>

\* updateSession's kv.put and its return to the route.
KvPut(p) ==
    /\ proc[p].pc = "kvput"
    /\ LET l == [proc[p] EXCEPT !.puts = @ + 1]
       IN  IF kvFault # "none"
           THEN /\ proc' = [proc EXCEPT ![p] = updateAttemptThrew(l, KvError)]
                /\ UNCHANGED <<store, writer>>
           ELSE /\ store' = l.updatedSession
                /\ writer' = "update"
                /\ proc' = [proc EXCEPT ![p] = respond(l, 200, NoError, TRUE)]
    /\ UNCHANGED <<created, kvFault, now>>

\* Mutant: deleting a key that holds nothing is answered as a failure.
KvDelete_absentIsError(p) ==
    /\ proc[p].pc = "rdelete"
    /\ LET l == proc[p]
       IN  IF kvFault # "none" \/ store = None
           THEN /\ proc' = [proc EXCEPT ![p] = respond(l, 500, KvError, FALSE)]
                /\ UNCHANGED <<store, writer>>
           ELSE /\ store' = None
                /\ writer' = "none"
                /\ proc' = [proc EXCEPT ![p] = respond(l, 200, NoError, TRUE)]
    /\ UNCHANGED <<created, kvFault, now>>

\* DELETE /:sessionId: its kv.delete.
KvDelete(p) ==
    /\ proc[p].pc = "rdelete"
    /\ LET l == proc[p]
       IN  IF kvFault # "none"
           THEN /\ proc' = [proc EXCEPT ![p] = respond(l, 500, KvError, FALSE)]
                /\ UNCHANGED <<store, writer>>
           ELSE /\ store' = None
                /\ writer' = "none"
                /\ proc' = [proc EXCEPT ![p] = respond(l, 200, NoError, TRUE)]
    /\ UNCHANGED <<created, kvFault, now>>

\* The response is sent; the client may issue its next request.
Respond(p) ==
    /\ proc[p].pc = "done"
    /\ proc' = [proc EXCEPT ![p] = Idle]
    /\ UNCHANGED <<store, writer, created, kvFault, now>>

\* The store starts or stops failing.
SetFault(f) ==
    /\ f # kvFault
    /\ kvFault' = f
    /\ UNCHANGED <<store, writer, created, proc, now>>

\* The record's TTL runs out.
Expire ==
    /\ store # None
    /\ store' = None
    /\ writer' = "none"
    /\ UNCHANGED <<created, kvFault, proc, now>>

\* The stored bytes are garbled outside the program.
Corrupt(c) ==
    /\ store # None
    /\ isFormSession(store[1])
    /\ store' = Some(c)
    /\ writer' = "external"
    /\ UNCHANGED <<created, kvFault, proc, now>>

\* Time passes.
Tick ==
    /\ now < MaxClock
    /\ now' = now + 1
    /\ UNCHANGED <<store, writer, created, kvFault, proc>>

Clients == {"c1"}

Next ==
    \/ \E p \in Clients : PostInit(p)
    \/ \E p \in Clients : \E raw \in PersonalInputs : PutPersonal(p, raw)
    \/ \E p \in Clients : \E raw \in PlanInputs : PutPlan(p, raw)
    \/ \E p \in Clients : \E raw \in AddonsInputs : PutAddons(p, raw)
    \/ \E p \in Clients : PostSubmit(p)
    \/ \E p \in Clients : GetRoute(p)
    \/ \E p \in Clients : DeleteRoute(p)
    \/ \E p \in Clients : \E t \in StepInputs : Navigate(p, t)
    \/ \E p \in Clients : KvGet(p)
    \/ \E p \in Clients : KvQuarantine(p)
    \/ \E p \in Clients : KvPut(p)
    \/ \E p \in Clients : KvDelete(p)
    \/ \E p \in Clients : Respond(p)
    \/ \E f \in {"none", "transient", "permission"} : SetFault(f)
    \/ Expire
    \/ \E c \in Garbled : Corrupt(c)

Spec == Init /\ [][Next]_vars

\* ------------------------------------------------- submit on complete sessions
\* The sessions the three field updates can leave at step 4: every plan, every
\* billing period, every addon list up to MaxSubmitAddons entries.
SubmitSessions ==
    {[NewSession EXCEPT
        !.current_step = 4,
        !.personal_info = Some([name |-> <<"J", "J">>, email |-> "jo@ex.com",
                                phone |-> [kept |-> 10, other |-> 0]]),
        !.plan_selection = Some([plan_id |-> pl, billing_period |-> b]),
        !.addons = Some(a)] :
     pl \in PlanIds, b \in BillingPeriods, a \in SeqsUpTo(AddonIds, MaxSubmitAddons)}

SubmitInit ==
    /\ now = 0
    /\ store \in {Some(s) : s \in SubmitSessions}
    /\ writer = "update"
    /\ created = TRUE
    /\ kvFault = "none"
    /\ proc = [p \in Procs |-> Idle]

SubmitNext ==
    \/ \E p \in Clients : PostSubmit(p)
    \/ \E p \in Clients : KvGet(p)
    \/ \E p \in Clients : KvPut(p)
    \/ \E p \in Clients : Respond(p)
    \/ Tick

SubmitSpec == SubmitInit /\ [][SubmitNext]_vars

\* ------------------------------------------------- two requests in flight
\* Two requests for the same session interleave at their store operations; the
\* store answers every operation.
ConcPersonalInputs ==
    {[name |-> <<"J", "J">>, email |-> "jo@ex.com", phone |-> [kept |-> 10, other |-> 2]],
     [name |-> <<"<b>">>, email |-> "jo@ex.com", phone |-> [kept |-> 10, other |-> 2]]}

ConcPlanInputs == {[plan_id |-> "arcade", billing_period |-> "monthly"]}

ConcAddonsInputs == {<<"larger_storage">>}

ConcNext ==
    \/ \E p \in Procs : PostInit(p)
    \/ \E p \in Procs : \E raw \in ConcPersonalInputs : PutPersonal(p, raw)
    \/ \E p \in Procs : \E raw \in ConcPlanInputs : PutPlan(p, raw)
    \/ \E p \in Procs : \E raw \in ConcAddonsInputs : PutAddons(p, raw)
    \/ \E p \in Procs : GetRoute(p)
    \/ \E p \in Procs : DeleteRoute(p)
    \/ \E p \in Procs : KvGet(p)
    \/ \E p \in Procs : KvQuarantine(p)
    \/ \E p \in Procs : KvPut(p)
    \/ \E p \in Procs : KvDelete(p)
    \/ \E p \in Procs : Respond(p)
    \/ Expire

ConcSpec == Init /\ [][ConcNext]_vars

\* ------------------------------------------------- requests over time
\* One request at a time against a store that answers, with the clock advancing
\* between store operations.
TimedNext ==
    \/ \E p \in Clients : PostInit(p)
    \/ \E p \in Clients : \E raw \in PersonalInputs : PutPersonal(p, raw)
    \/ \E p \in Clients : \E raw \in PlanInputs : PutPlan(p, raw)
    \/ \E p \in Clients : \E raw \in AddonsInputs : PutAddons(p, raw)
    \/ \E p \in Clients : PostSubmit(p)
    \/ \E p \in Clients : GetRoute(p)
    \/ \E p \in Clients : DeleteRoute(p)
    \/ \E p \in Clients : KvGet(p)
    \/ \E p \in Clients : KvQuarantine(p)
    \/ \E p \in Clients : KvPut(p)
    \/ \E p \in Clients : KvDelete(p)
    \/ \E p \in Clients : Respond(p)
    \/ Expire
    \/ Tick

TimedSpec == Init /\ [][TimedNext]_vars

\* ------------------------------------------------- requests that run on
\* One request at a time against a store that may fail, expire or garble at any
\* moment. Every store operation a request awaits is answered (with a value or
\* an error) and the request's continuation then runs, so each of its steps is
\* taken once it stays enabled.
LiveNext ==
    \/ \E p \in Clients : PostInit(p)
    \/ \E p \in Clients : \E raw \in ConcPersonalInputs : PutPersonal(p, raw)
    \/ \E p \in Clients : \E raw \in ConcPlanInputs : PutPlan(p, raw)
    \/ \E p \in Clients : \E raw \in ConcAddonsInputs : PutAddons(p, raw)
    \/ \E p \in Clients : PostSubmit(p)
    \/ \E p \in Clients : GetRoute(p)
    \/ \E p \in Clients : DeleteRoute(p)
    \/ \E p \in Clients : KvGet(p)
    \/ \E p \in Clients : KvQuarantine(p)
    \/ \E p \in Clients : KvPut(p)
    \/ \E p \in Clients : KvDelete(p)
    \/ \E p \in Clients : Respond(p)
    \/ \E f \in {"none", "transient", "permission"} : SetFault(f)
    \/ Expire
    \/ \E c \in Garbled : Corrupt(c)

LiveSpec ==
    /\ Init
    /\ [][LiveNext]_vars
    /\ \A p \in Clients :
         /\ WF_vars(KvGet(p))
         /\ WF_vars(KvQuarantine(p))
         /\ WF_vars(KvPut(p))
         /\ WF_vars(KvDelete(p))

\* ------------------------------------------------------------ claims
\* The structural rules of a stored record, as the data model states them.
ValidPersonal(pi) == StrLen(pi.name) >= 2 /\ pi.email \in {"jo@ex.com", "JO@Ex.com"}
ValidPlan(pl) ==
    pl.plan_id \in {"arcade", "advanced", "pro"} /\ pl.billing_period \in {"monthly", "yearly"}
ValidAddons(a) ==
    \A i \in 1..Len(a) : a[i] \in {"customizable_profile", "larger_storage", "online_services"}
HasPersonal(s) == s.personal_info # None /\ ValidPersonal(s.personal_info[1])
HasPlan(s) == s.plan_selection # None /\ ValidPlan(s.plan_selection[1])
HasAddons(s) == s.addons # None /\ ValidAddons(s.addons[1])
WellFormed(s) ==
    /\ s.id # None
    /\ s.step_typeof = "number"
    /\ s.current_step \in 1..4
    /\ (s.personal_info # None => ValidPersonal(s.personal_info[1]))
    /\ (s.plan_selection # None => ValidPlan(s.plan_selection[1]))
    /\ (s.addons # None => ValidAddons(s.addons[1]))

ByProgram == store # None /\ writer \in {"init", "update"}
Took(p) == proc'[p] # proc[p]
Returned(p) == proc[p].pc = "done" /\ proc[p].phase = "update" /\ proc[p].response.ok
FieldRoutes == {"personal", "plan", "addons"}

\* C1: in every session the program stored, current_step >= 2 implies a valid
\* personal_info, >= 3 implies a valid plan_selection too, and 4 implies valid
\* addons too (the step is the highest one whose prerequisites all hold).
C1_StepIsCumulative ==
    ByProgram =>
        LET s == store[1]
        IN  /\ (s.current_step >= 2 => HasPersonal(s))
            /\ (s.current_step >= 3 => HasPersonal(s) /\ HasPlan(s))
            /\ (s.current_step = 4 => HasPersonal(s) /\ HasPlan(s) /\ HasAddons(s))

\* C2: a kv.get that raises a permission-class error during a fetch ends the call
\* at once: the call fails, no backoff sleep follows and no further get is issued.
C2_PermissionFailFast ==
    [][\A p \in Procs :
         (proc[p].pc = "kvget" /\ kvFault = "permission" /\ Took(p))
         => /\ proc'[p].pc = "done"
            /\ ~proc'[p].response.ok
            /\ proc'[p].sleeps = proc[p].sleeps]_vars

\* The error the running attempt of updateSession ends with when it fails now.
AttemptError(p) ==
    IF proc[p].pc = "kvput" THEN KvError
    ELSE IF kvFault # "none" THEN ErrAccess
    ELSE ErrNotExist

C3_Counts(maxReads) ==
    \A p \in Procs :
        proc[p].phase = "update"
        => /\ proc[p].attempt + 1 <= 3
           /\ proc[p].gets <= maxReads
           /\ proc[p].puts <= 3

C3_Attempts ==
    \A p \in Procs :
        (proc[p].phase = "update" /\ proc[p].pc \in {"kvget", "kvdel", "kvput"} /\ Took(p))
        => /\ (proc[p].pc = "kvput" /\ kvFault = "none"
                 => proc'[p].pc = "done" /\ proc'[p].response.ok)
           /\ (proc'[p].pc = "done" /\ proc'[p].response.ok
                 => proc[p].pc = "kvput" /\ kvFault = "none")
           /\ (proc'[p].pc = "done" /\ ~proc'[p].response.ok
                 => /\ proc'[p].response.error = AttemptError(p)
                    /\ (IncludesPermission(AttemptError(p)) \/ proc[p].attempt + 1 = 3))

\* C3 as stated: one updateSession call makes at most 3 attempts of its cycle, reads
\* the store at most 3 times and writes it at most 3 times, stops at the first
\* successful attempt, and fails only after 3 attempts (or a permission error) with
\* the error of the last attempt.
C3_ReadsAtMostThree == [](C3_Counts(3)) /\ [][C3_Attempts]_vars

\* C3 amended: the same, with at most 9 reads of the store (each attempt's fetch
\* retries its own kv.get up to 3 times).
C3_RetryBudget == [](C3_Counts(9)) /\ [][C3_Attempts]_vars

C3_Witness ==
    \E p \in Procs :
        /\ proc[p].pc = "done" /\ proc[p].phase = "update" /\ ~proc[p].response.ok
        /\ proc[p].attempt = 2 /\ proc[p].gets = 9 /\ proc[p].puts = 0
        /\ proc[p].response.error = ErrAccess

\* C4: right after an updateSession call returns, a load of the same id returns
\* the session that was written (not absent) and leaves the record in place.
C4_RoundTrip ==
    [][\A p \in Procs :
         (proc[p].pc = "kvput" /\ proc'[p].pc = "done" /\ proc'[p].response.ok)
         => /\ getSessionResult(store') # None
            /\ getSessionResult(store') = proc'[p].updatedSession
            /\ WellFormed(store'[1])]_vars

\* C5: an attempt of updateSession whose fetch finds the key absent fails with the
\* session-not-found error, issues no put and leaves the key absent; when the call
\* ends there, the route answers 404.
C5_NoImplicitCreate ==
    [][\A p \in Procs :
         (/\ proc[p].pc = "kvget" /\ proc[p].phase = "update"
          /\ kvFault = "none" /\ store = None /\ Took(p))
         => /\ store' = None
            /\ proc'[p].puts = proc[p].puts
            /\ proc'[p].pc \in {"kvget", "done"}
            /\ (proc'[p].pc = "kvget" => proc'[p].attempt = proc[p].attempt + 1)
            /\ (proc'[p].pc = "done"
                  => proc'[p].response =
                       [status |-> 404, error |-> ErrNotExist, ok |-> FALSE])]_vars

C5_Witness ==
    \E p \in Procs :
        /\ proc[p].pc = "done" /\ proc[p].route = "personal"
        /\ proc[p].response.status = 404 /\ proc[p].response.error = ErrNotExist
        /\ proc[p].puts = 0 /\ store = None /\ proc[p].gets = 3

C6_NeverReturned ==
    \A p \in Procs :
        /\ (proc[p].existing # None => WellFormed(proc[p].existing[1]))
        /\ (proc[p].session # None => WellFormed(proc[p].session[1]))

C6_Deletes ==
    \A p \in Procs :
        /\ (/\ proc[p].pc = "kvget" /\ kvFault = "none" /\ Took(p)
            /\ store # None /\ ~WellFormed(store[1]))
           => proc'[p].pc = "kvdel" /\ proc'[p].session = proc[p].session
                                    /\ proc'[p].existing = None
        /\ (proc[p].pc = "kvdel" /\ kvFault = "none" /\ Took(p))
           => /\ store' = None
              /\ proc'[p].existing = None
              /\ proc'[p].session = proc[p].session
              /\ proc'[p].pc \in {"kvget", "done"}
              /\ ~proc'[p].response.ok

\* C6: a stored record that fails the structural check is never handed to a caller
\* of getSession; getSession deletes it and returns absent.
C6_Quarantine == [](C6_NeverReturned) /\ [][C6_Deletes]_vars

C6_Witness ==
    \E p \in Procs :
        /\ proc[p].pc = "done" /\ proc[p].route = "read" /\ proc[p].quarantined
        /\ proc[p].response.status = 404 /\ store = None

\* C7: every record init or updateSession wrote, and every record updateSession is
\* about to write, has current_step in 1..4.
C7_StepRange ==
    /\ (ByProgram => store[1].current_step \in 1..4)
    /\ \A p \in Procs :
         proc[p].updatedSession # None => proc[p].updatedSession[1].current_step \in 1..4

C7_Witness == ByProgram /\ writer = "update" /\ store[1].current_step = 4

\* C8: an update that supplies only personal_info persists current_step >= 2 when
\* the supplied value validates, the fetched session's step when it does not, and
\* never a step below the fetched session's.
C8_PersonalStep ==
    \A p \in Procs :
        (proc[p].route = "personal" /\ proc[p].updatedSession # None)
        => LET S == proc[p].existing[1]
               P == proc[p].updatedSession[1]
               supplied == proc[p].updates.personal_info[1]
           IN  /\ (ValidPersonal(supplied) => P.current_step >= 2)
               /\ (~ValidPersonal(supplied) => P.current_step = S.current_step)
               /\ P.current_step >= S.current_step
               /\ (Returned(p) /\ writer = "update" => store = proc[p].updatedSession)

C8_Witness ==
    \E p \in Procs :
        /\ Returned(p) /\ proc[p].route = "personal"
        /\ ~ValidPersonal(proc[p].updates.personal_info[1])
        /\ proc[p].existing[1].current_step = 2
        /\ store = proc[p].updatedSession /\ store[1].current_step = 2

\* C9: an update that supplies an explicit step s, 1 <= s <= the fetched session's
\* step, persists current_step = s.
C9_ExplicitStep ==
    \A p \in Procs :
        (proc[p].updatedSession # None /\ proc[p].updates.current_step # None)
        => LET s == proc[p].updates.current_step[1]
           IN  (1 <= s /\ s <= proc[p].existing[1].current_step)
               => proc[p].updatedSession[1].current_step = s

C10_Rejects ==
    \A p \in Procs :
        (/\ proc[p].route = "navigate" /\ proc[p].phase = "load" /\ proc[p].pc = "kvget"
         /\ kvFault = "none" /\ Took(p)
         /\ store # None /\ WellFormed(store[1])
         /\ proc[p].updates.current_step[1] > store[1].current_step)
        => /\ proc'[p].pc = "done"
           /\ proc'[p].response = [status |-> 400, error |-> <<"CannotSkipAhead">>, ok |-> FALSE]
           /\ store' = store

C10_ForwardOnlyByFields ==
    (ByProgram /\ store' # None /\ writer' = "update"
       /\ store'[1].current_step > store[1].current_step)
    => \E p \in Procs : proc[p].pc = "kvput" /\ Took(p) /\ proc[p].route \in FieldRoutes

Complete(s) == HasPersonal(s) /\ HasPlan(s) /\ HasAddons(s) /\ s.current_step = 4

\* C11: submit answers success only when the session it loaded has valid
\* personal_info, plan_selection and addons and current_step = 4; when its load
\* finds the key absent it answers 404, and when it finds a session with a
\* section missing or invalid or a step other than 4 it answers 400 and writes
\* nothing to the store.
C11_SubmitGate ==
    /\ [](\A p \in Procs :
            (proc[p].pc = "done" /\ proc[p].route = "submit" /\ proc[p].response.ok)
            => proc[p].session # None /\ Complete(proc[p].session[1]))
    /\ [][\A p \in Procs :
            (/\ proc[p].route = "submit" /\ proc[p].phase = "load"
             /\ proc[p].pc = "kvget" /\ kvFault = "none" /\ Took(p))
            => /\ (store = None
                     => /\ proc'[p].pc = "done"
                        /\ proc'[p].response.status = 404
                        /\ store' = store)
               /\ ((store # None /\ WellFormed(store[1]) /\ ~Complete(store[1]))
                     => /\ proc'[p].pc = "done"
                        /\ proc'[p].response.status = 400
                        /\ ~proc'[p].response.ok
                        /\ proc'[p].puts = 0
                        /\ store' = store)]_vars

C11_Witness ==
    \E p \in Procs :
        /\ proc[p].pc = "done" /\ proc[p].route = "submit" /\ proc[p].response.ok
        /\ proc[p].response.status = 200
        /\ proc[p].session # None /\ Complete(proc[p].session[1])

RECURSIVE SumOfPrices(_, _)
SumOfPrices(selection, period) ==
    IF selection = <<>> THEN 0
    ELSE addonPrice(selection[1], period) + SumOfPrices(Tail(selection), period)

Submitted(p) ==
    proc[p].pc = "done" /\ proc[p].route = "submit" /\ proc[p].response.ok

\* C12: the total of a successful submit is the price of the session's plan at
\* its billing period plus the sum of the prices, at the same period, of the
\* entries of its addons; with no addons it is the plan's price exactly.
C12_SubmitTotal ==
    \A p \in Procs :
        Submitted(p)
        => LET s == proc[p].session[1]
               plan == s.plan_selection[1]
           IN  /\ proc[p].total = planPrice(plan.plan_id, plan.billing_period)
                                  + SumOfPrices(s.addons[1], plan.billing_period)
               /\ (s.addons[1] = <<>>
                     => proc[p].total = planPrice(plan.plan_id, plan.billing_period))

C12_Witness ==
    \E p \in Procs :
        /\ Submitted(p)
        /\ proc[p].session[1].plan_selection[1] = [plan_id |-> "pro", billing_period |-> "yearly"]
        /\ proc[p].session[1].addons[1] = <<"larger_storage", "online_services">>
        /\ proc[p].total = 180000

SameIds(a, b) == {a[i] : i \in 1..Len(a)} = {b[i] : i \in 1..Len(b)}

\* C13: the total of a successful submit and the step an addons update computes
\* are the same for every addon list holding the same set of ids as the
\* session's list (duplicates and order do not count).
C13_AddonsAreASet ==
    \A p \in Procs :
        Submitted(p)
        => LET s == proc[p].session[1]
           IN  \A b \in SeqsUpTo(AddonIds, MaxSubmitAddons) :
                   SameIds(b, s.addons[1])
                   => /\ submitTotal([s EXCEPT !.addons = Some(b)]) = proc[p].total
                      /\ buildUpdatedSession(s, [NoUpdates EXCEPT !.addons = Some(b)]).current_step
                           = store[1].current_step

\* C14: when the last attempt of a personal, plan or addons update fails on a
\* store that answers with a transient error, the route answers with a status of
\* the 500 class, not with success, and the stored record is left as it was.
C14_StoreUnavailable ==
    [][\A p \in Procs :
         (/\ proc[p].route \in FieldRoutes /\ proc[p].phase = "update"
          /\ proc[p].pc \in {"kvget", "kvput"} /\ kvFault = "transient"
          /\ proc[p].attempt = 2 /\ Took(p) /\ proc'[p].pc = "done")
         => /\ proc'[p].response.status >= 500
            /\ ~proc'[p].response.ok
            /\ store' = store]_vars

\* C15 as stated: a delete request that finds the key absent is not answered with
\* an error, and a kv.delete leaves the key absent.
C15_RemoveIdempotent ==
    [][\A p \in Procs :
         (/\ proc[p].route = "delete" /\ proc[p].pc \in {"kvget", "rdelete"}
          /\ kvFault = "none" /\ Took(p))
         => /\ (store = None /\ proc'[p].pc = "done" => proc'[p].response.ok)
            /\ (proc[p].pc = "rdelete" => store' = None)]_vars

\* C15 amended: the route's kv.delete succeeds whether or not the key still holds
\* a record and leaves the key absent; a delete request whose load finds the key
\* absent answers 404 without issuing a kv.delete, and the key stays absent.
C15_RemoveAtStore ==
    [][\A p \in Procs :
         (proc[p].route = "delete" /\ kvFault = "none" /\ Took(p))
         => /\ (proc[p].pc = "rdelete"
                  => /\ store' = None
                     /\ proc'[p].pc = "done"
                     /\ proc'[p].response.ok
                     /\ proc'[p].response.status = 200)
            /\ (proc[p].pc = "kvget" /\ store = None
                  => /\ store' = None
                     /\ proc'[p].pc = "done"
                     /\ proc'[p].response.status = 404
                     /\ ~proc'[p].response.ok)]_vars

C15_Witness ==
    \E p \in Procs :
        /\ proc[p].pc = "done" /\ proc[p].route = "delete"
        /\ proc[p].response.status = 404 /\ proc[p].gets = 1
        /\ store = None /\ created

\* C16: the put of updateSession writes only over a key that holds a record at
\* that moment, so a session that was deleted or has expired since the update's
\* fetch is not brought back: once the key of a created session is absent it
\* stays absent.
C16_NoResurrection ==
    [][/\ \A p \in Procs :
            (proc[p].pc = "kvput" /\ kvFault = "none" /\ Took(p)) => store # None
       /\ (created /\ store = None => store' = None)]_vars

\* C17: when getSession issues its quarantine delete, the record under the key at
\* that moment fails the structural check; a valid record put there since the
\* get is not removed.
C17_QuarantineOnlyCorrupt ==
    [][\A p \in Procs :
         (proc[p].pc = "kvdel" /\ kvFault = "none" /\ Took(p) /\ store # None)
         => ~WellFormed(store[1])]_vars

Supplied(new, old) == IF new = None THEN old ELSE new

\* C18: every successful put of updateSession leaves under the key the writer's
\* own fetched snapshot overlaid with the writer's own partial fields, whatever
\* the key held just before; so with two updates in flight that set different
\* fields, both can succeed while the stored session holds only the field of the
\* one whose put came last (the witness).
C18_LastWriteWins ==
    [][\A p \in Procs :
         (proc[p].pc = "kvput" /\ kvFault = "none" /\ Took(p))
         => LET snapshot == proc[p].existing[1]
                partial == proc[p].updates
            IN  /\ store' # None
                /\ store'[1].id = snapshot.id
                /\ store'[1].personal_info
                     = Supplied(partial.personal_info, snapshot.personal_info)
                /\ store'[1].plan_selection
                     = Supplied(partial.plan_selection, snapshot.plan_selection)
                /\ store'[1].addons = Supplied(partial.addons, snapshot.addons)
                /\ proc'[p].pc = "done" /\ proc'[p].response.ok]_vars

C18_Witness ==
    /\ \A p \in Procs : proc[p].pc = "done" /\ proc[p].response.ok
    /\ proc["c1"].route = "personal" /\ proc["c2"].route = "plan"
    /\ proc["c1"].existing = proc["c2"].existing
    /\ store # None
    /\ store[1].personal_info = None
    /\ store[1].plan_selection = Some([plan_id |-> "arcade", billing_period |-> "monthly"])

\* C19: a successful put of a personal, plan or addons update stores a session
\* with the id of the fetched one and with the two field groups the update did
\* not supply exactly as fetched, and with created_at equal to updated_at.
C19_MergeFrame ==
    [][\A p \in Procs :
         (/\ proc[p].route \in FieldRoutes /\ proc[p].pc = "kvput"
          /\ kvFault = "none" /\ Took(p))
         => LET fetched == proc[p].existing[1]
                written == store'[1]
            IN  /\ written.id = fetched.id
                /\ written.step_typeof = fetched.step_typeof
                /\ (proc[p].route # "personal"
                      => written.personal_info = fetched.personal_info)
                /\ (proc[p].route # "plan"
                      => written.plan_selection = fetched.plan_selection)
                /\ (proc[p].route # "addons" => written.addons = fetched.addons)
                /\ written.created_at = written.updated_at]_vars

C19_Witness ==
    \E p \in Procs :
        /\ proc[p].pc = "done" /\ proc[p].route = "plan" /\ proc[p].response.ok
        /\ store = proc[p].updatedSession
        /\ store[1].personal_info # None
        /\ store[1].personal_info = proc[p].existing[1].personal_info
        /\ store[1].addons = proc[p].existing[1].addons
        /\ store[1].plan_selection # proc[p].existing[1].plan_selection
        /\ store[1].created_at > proc[p].existing[1].created_at
        /\ store[1].created_at = store[1].updated_at

\* C20: the put of a successful submit stores the personal_info, plan_selection,
\* addons and current_step (4) of the session the submit loaded, and every submit
\* of a complete session succeeds, a submit of the record a previous submit wrote
\* included.
C20_SubmitKeepsState ==
    /\ [][\A p \in Procs :
            (/\ proc[p].route = "submit" /\ proc[p].pc = "kvput"
             /\ kvFault = "none" /\ Took(p))
            => LET before == proc[p].session[1]
                   after == store'[1]
               IN  /\ after.personal_info = before.personal_info
                   /\ after.plan_selection = before.plan_selection
                   /\ after.addons = before.addons
                   /\ after.current_step = 4
                   /\ before.current_step = 4
                   /\ proc'[p].pc = "done" /\ proc'[p].response.ok]_vars
    /\ [](\A p \in Procs :
            proc[p].pc = "done" /\ proc[p].route = "submit" => proc[p].response.ok)

\* A submit has succeeded on the record an earlier submit wrote.
C20_Witness ==
    \E p \in Procs :
        /\ Submitted(p)
        /\ proc[p].session[1].updated_at > 0
        /\ store[1].updated_at > proc[p].session[1].updated_at
        /\ store[1].addons = proc[p].session[1].addons
        /\ store[1].addons # Some(<<>>)
        /\ store[1].current_step = 4

C21_Slept(maxMs) ==
    \A p \in Procs : proc[p].phase = "update" => proc[p].slept <= maxMs

C21_Doubling ==
    \A p \in Procs :
        (proc[p].phase = "update" /\ Took(p) /\ proc'[p].sleeps = proc[p].sleeps + 1)
        => proc'[p].slept - proc[p].slept
             = IF proc'[p].attempt = proc[p].attempt + 1
               THEN (IF proc[p].attempt = 0 THEN 100 ELSE 200)
               ELSE (IF proc[p].gattempt = 0 THEN 200 ELSE 400)

\* C21 as stated: the backoff sleeps of one updateSession call add up to at most
\* 1400 ms.
C21_AtMost1400 == C21_Slept(1400)

\* C21 amended: the backoff sleeps of one updateSession call add up to at most
\* 2100 ms; the call's own retries sleep 100 ms and then 200 ms, and within each
\* attempt the fetch's retries sleep 200 ms and then 400 ms.
C21_BoundedBackoff == [](C21_Slept(2100)) /\ [][C21_Doubling]_vars

C21_Witness ==
    \E p \in Procs :
        /\ proc[p].pc = "done" /\ proc[p].phase = "update" /\ ~proc[p].response.ok
        /\ proc[p].sleeps = 8 /\ proc[p].slept = 2100

InFlight(p) == proc[p].pc \in {"kvget", "kvdel", "kvput", "rdelete"}

\* C22: every request that has started its load, its update or its submit ends
\* with a response, whatever the store does meanwhile (a store that fails every
\* call included).
C22_Termination ==
    \A p \in Procs : InFlight(p) ~> (proc[p].pc = "done")

C22_Witness ==
    \E p \in Procs :
        /\ proc[p].pc = "done" /\ proc[p].route = "submit" /\ proc[p].phase = "update"
        /\ kvFault = "transient"
        /\ proc[p].response.status = 500
        /\ proc[p].attempt = 2 /\ proc[p].gattempt = 2 /\ proc[p].gets = 9

====
